---------------------------- MODULE Spec2Model ----------------------------
(***************************************************************************)
(* Model of fix_ts_errors.py: a driver that discovers TypeScript files,    *)
(* applies two regular-expression rewrites to each file's text and writes  *)
(* back the files whose text changed.                                      *)
(*                                                                         *)
(* Text is a sequence of tokens.  A token is a TLA+ string holding the     *)
(* literal characters it stands for; the literals of the source's regular  *)
(* expressions are cut at the same places, so a literal of a pattern can   *)
(* only match on token boundaries, and a character class is the set of     *)
(* tokens all of whose characters are in the class.                        *)
(***************************************************************************)
EXTENDS Integers, Sequences, FiniteSets

----------------------------------------------------------------------------
(* Tokens *)

FN     == "async function checkAdminAccess("
RPAR   == ")"
SIG    == ": Promise<boolean> {"
CONST1 == "const firestore = getFirebaseFirestore();"
CONST2 == "const firestoreDb = getFirebaseFirestore();"
IF1    == "if (!firestore) {"
IF2    == "if (!firestoreDb) {"
RET    == "return NextResponse.json("
ERR    == "{ error: "
MID    == "}, { status: "
END    == "})"
THROW  == "throw new Error("
SQ     == "'"
DQ     == "\""
SP     == " "
NL     == "\n"
CR     == "\r"
ANY    == ": any"
ARROW  == "=>"
LPAR   == "("
RBRACE == "}"

\* The list with its last entry forgotten.
SixMethodsWithoutEvery == <<".forEach(", ".map(", ".filter(", ".find(", ".some(">>

\* The six operations of fix_implicit_any_params, in the order of its list.
SixMethods == <<".forEach(", ".map(", ".filter(", ".find(", ".some(", ".every(">>

SixMethodSet == {SixMethods[i] : i \in 1..Len(SixMethods)}

\* Method-call tokens that are none of the six.
OtherMethods == {".reduce(", ".run("}

\* \w+ : tokens made of word characters only.
Word == {"x", "y", "req", "items", "Forbidden", "403", "code"}

\* \d+ : tokens made of digits only.
Digits == {"403"}

\* \s : whitespace tokens.
Space == {SP, NL, CR}

Quote == {SQ, DQ}

Token ==
    {FN, RPAR, SIG, CONST1, CONST2, IF1, IF2, RET, ERR, MID, END, THROW,
     ANY, ARROW, LPAR, RBRACE, ";", ",", "$"}
    \cup SixMethodSet \cup OtherMethods \cup Word \cup Space \cup Quote

\* Tokens that contain the character ')'.
HasRParen == {RPAR, END, CONST1, CONST2, IF1, IF2}

\* Tokens that contain the character '}'.
HasRBrace == {RBRACE, MID, END}

NotRParen == Token \ HasRParen   \* [^)]
NotRBrace == Token \ HasRBrace   \* [^}] and [^\}]
NotQuote  == Token \ Quote       \* [^'"]

----------------------------------------------------------------------------
(* A backtracking matcher for the patterns the script uses: a pattern is a *)
(* sequence of elements, each one token of a set, or a repetition of a     *)
(* class, greedy or lazy, of at least min tokens.                          *)

One(S)           == [s |-> S, rep |-> FALSE, min |-> 1, max |-> 1, lazy |-> FALSE]
Lit(tok)         == One({tok})
Rep(S, min, lzy) == [s |-> S, rep |-> TRUE, min |-> min, max |-> -1, lazy |-> lzy]
Opt(S)           == [s |-> S, rep |-> TRUE, min |-> 0, max |-> 1, lazy |-> FALSE]

Fail == 0

SetMin(S) == CHOOSE x \in S : \A y \in S : x <= y
SetMax(S) == CHOOSE x \in S : \A y \in S : x >= y

\* The number of consecutive tokens of class S in t from position p on.
RECURSIVE Run(_, _, _)
Run(t, p, S) ==
    IF p <= Len(t) /\ t[p] \in S THEN 1 + Run(t, p + 1, S) ELSE 0

\* re.match of elements k.. of pattern re on t at position p: the position
\* after the match the backtracking search finds first, or Fail.
RECURSIVE MatchAt(_, _, _, _)
MatchAt(re, k, t, p) ==
    IF k > Len(re) THEN p
    ELSE LET e == re[k] IN
         IF ~e.rep
         THEN IF p <= Len(t) /\ t[p] \in e.s
              THEN MatchAt(re, k + 1, t, p + 1)
              ELSE Fail
         ELSE LET n    == Run(t, p, e.s)
                  hi   == IF e.max >= 0 /\ e.max < n THEN e.max ELSE n
                  ends == [j \in e.min..hi |-> MatchAt(re, k + 1, t, p + j)]
                  good == {j \in e.min..hi : ends[j] # Fail}
              IN  IF good = {} THEN Fail
                  ELSE ends[IF e.lazy THEN SetMin(good) ELSE SetMax(good)]

Slice(t, from, to) == SubSeq(t, from, to)

----------------------------------------------------------------------------
(* fix_check_admin_access *)

\* The pattern of line 17.
OuterPattern ==
    << Lit(FN), Rep(NotRParen, 1, FALSE), Lit(RPAR), Lit(SIG),
       Rep(NotRBrace, 0, TRUE), One({CONST1, CONST2}),
       Rep(NotRBrace, 0, TRUE), One({IF1, IF2}), Rep(Space, 0, FALSE),
       Lit(RET), Rep(NotRBrace, 1, FALSE), Lit(MID), Rep(Digits, 1, FALSE),
       Lit(SP), Lit(END), Opt({";"}), Rep(Space, 0, FALSE), Lit(RBRACE) >>

\* The pattern of line 23, with its group 1 (the quote) bound to q.
InnerPattern(q) ==
    << Lit(RET), Lit(ERR), Lit(q), Rep(NotQuote, 1, FALSE), Lit(q), Lit(SP),
       Lit(MID), Rep(Digits, 1, FALSE), Lit(SP), Lit(END) >>

\* The quote with which the pattern of line 23 matches t at p, or "".
InnerQuoteAt(t, p) ==
    IF MatchAt(InnerPattern(SQ), 1, t, p) # Fail THEN SQ
    ELSE IF MatchAt(InnerPattern(DQ), 1, t, p) # Fail THEN DQ
    ELSE ""

\* The template with the message left out: throw new Error(\1\1).
InnerReplacementNoMessage(t, p, q) == <<THROW, q, q, RPAR>>

\* The template of line 24 for a match at p with quote q: group 2 is the
\* run of non-quote tokens after the opening quote.
InnerReplacement(t, p, q) ==
    <<THROW, q>> \o Slice(t, p + 3, p + 2 + Run(t, p + 3, NotQuote)) \o <<q, RPAR>>

\* re.sub of lines 22-26 on the matched text, from position p on.
RECURSIVE InnerSub(_, _)
InnerSub(t, p) ==
    IF p > Len(t) THEN <<>>
    ELSE LET q == InnerQuoteAt(t, p) IN
         IF q # ""
         THEN InnerReplacement(t, p, q)
              \o InnerSub(t, MatchAt(InnerPattern(q), 1, t, p))
         ELSE <<t[p]>> \o InnerSub(t, p + 1)

replacer(original) == InnerSub(original, 1)

\* re.sub of line 29, from position p on.
RECURSIVE OuterSub(_, _)
OuterSub(t, p) ==
    IF p > Len(t) THEN <<>>
    ELSE LET e == MatchAt(OuterPattern, 1, t, p) IN
         IF e # Fail
         THEN replacer(Slice(t, p, e - 1)) \o OuterSub(t, e)
         ELSE <<t[p]>> \o OuterSub(t, p + 1)

fix_check_admin_access(content) == OuterSub(content, 1)

----------------------------------------------------------------------------
(* fix_implicit_any_params *)

\* A pattern that does not look at what follows the parameter.
CallbackPatternLoose(m) == << Lit(m), Lit(LPAR), Rep(Word, 1, FALSE) >>

\* The pattern of the entry of lines 72-77 for method token m.
CallbackPattern(m) ==
    << Lit(m), Lit(LPAR), Rep(Word, 1, FALSE), Lit(RPAR), Lit(SP), Lit(ARROW) >>

\* The patterns of the list, by method token.
CallbackPatternOf == [m \in SixMethodSet |-> CallbackPattern(m)]

\* Its replacement for a match at p: group 1 is the run of word tokens.
CallbackReplacement(t, p) ==
    <<t[p], LPAR>> \o Slice(t, p + 2, p + 1 + Run(t, p + 2, Word))
    \o <<ANY, RPAR, SP, ARROW>>

\* re.sub of line 81 for one entry, from position p on.
RECURSIVE CallbackSub(_, _, _)
CallbackSub(m, t, p) ==
    IF p > Len(t) THEN <<>>
    ELSE LET e == MatchAt(CallbackPatternOf[m], 1, t, p) IN
         IF e # Fail
         THEN CallbackReplacement(t, p) \o CallbackSub(m, t, e)
         ELSE <<t[p]>> \o CallbackSub(m, t, p + 1)

\* The loop of lines 80-81 over the entries k.. of the list.
RECURSIVE ApplyPatterns(_, _)
ApplyPatterns(content, k) ==
    IF k > Len(SixMethods) THEN content
    ELSE ApplyPatterns(CallbackSub(SixMethods[k], content, 1), k + 1)

fix_implicit_any_params(content) == ApplyPatterns(content, 1)

\* Lines 94-95 of process_file.
Pipeline(content) == fix_implicit_any_params(fix_check_admin_access(content))

----------------------------------------------------------------------------
(* Input texts for the checks of the two rewrite functions. *)

MaxCalls == 3
MaxGuards == 2

RECURSIVE SeqsOf(_, _)
\* The concatenations of at most n members of the set of sequences S.
SeqsOf(S, n) ==
    IF n = 0 THEN {<< >>}
    ELSE LET shorter == SeqsOf(S, n - 1) IN
         shorter \cup {a \o b : a \in shorter, b \in S}

\* One call site: items<m>(<params>)<arrow> x
Call(m, params, arrow) ==
    <<"items", m, LPAR>> \o params \o <<RPAR>> \o arrow \o <<SP, "x">>

CoreSites ==
    {Call(".forEach(", <<"x">>, <<SP, ARROW>>),
     Call(".reduce(", <<"x">>, <<SP, ARROW>>),
     Call(".map(", <<"x", ANY>>, <<SP, ARROW>>),
     Call(".find(", <<"x">>, <<ARROW>>),
     <<SP>>}

CallSites ==
    {Call(m, <<"x">>, <<SP, ARROW>>) :
        m \in {".forEach(", ".map(", ".filter(", ".find(", ".some(", ".every(", ".reduce("}}
    \cup {Call(".map(", ps, <<SP, ARROW>>) :
            ps \in {<< >>, <<"x", "y">>, <<"x", ANY>>, <<"x", ",", "y">>, <<"$", "x">>}}
    \cup {Call(".find(", <<"x">>, <<ARROW>>),
          Call(".some(", <<"x">>, <<SP, SP, ARROW>>),
          <<"items", ".filter(", SP, LPAR, "x", RPAR, SP, ARROW>>,
          <<"items", ".every(", "x", SP, ARROW>>}

CallbackTexts == CallSites \cup SeqsOf(CoreSites, MaxCalls)

\* The statement the access check returns with.
ReturnStmt(q1, msg, q2, extra) ==
    <<RET, ERR, q1>> \o msg \o <<q2>> \o extra \o <<SP, MID, "403", SP, END>>

GuardStmts ==
    {ReturnStmt(SQ, <<"Forbidden">>, SQ, << >>),
     ReturnStmt(DQ, <<"Forbidden", SP, "x">>, DQ, << >>),
     ReturnStmt(SQ, <<"Forbidden">>, DQ, << >>),
     ReturnStmt(DQ, <<"x", SQ, "y">>, DQ, << >>),
     ReturnStmt(SQ, <<"Forbidden">>, SQ, <<",", SP, "code">>),
     ReturnStmt(SQ, <<"items", ".map(", LPAR, "x", RPAR, SP, ARROW>>, SQ, << >>),
     <<RET, "x", ",", SP>> \o ReturnStmt(SQ, <<"Forbidden">>, SQ, << >>),
     <<THROW, SQ, "Forbidden", SQ, RPAR>>}

\* if (!<handle>) { <stmt> }
Guard(if, ws, stmt, semi, close) == <<if>> \o ws \o stmt \o semi \o close

CoreGuards ==
    {Guard(IF1, <<NL>>, ReturnStmt(SQ, <<"Forbidden">>, SQ, << >>), <<";">>, <<NL, RBRACE, NL>>),
     Guard(IF2, << >>, ReturnStmt(DQ, <<"Forbidden">>, DQ, << >>), << >>, <<RBRACE>>),
     <<"x", ";", NL>>}

Guards ==
    {Guard(IF1, <<NL>>, s, <<";">>, <<NL, RBRACE>>) : s \in GuardStmts}
    \cup {Guard(IF1, <<NL>>, ReturnStmt(SQ, <<"Forbidden">>, SQ, << >>), <<";">>, <<NL>>),
          Guard("x", <<NL>>, ReturnStmt(SQ, <<"Forbidden">>, SQ, << >>), <<";">>, <<NL, RBRACE>>)}

Headers ==
    {<<FN, "req", RPAR, SIG, NL>>,
     <<FN, RPAR, SIG, NL>>,
     <<FN, "req", RPAR, NL>>}

Handles ==
    {<<CONST1, NL>>, <<CONST2, NL>>,
     <<CONST1, NL>> \o Call(".map(", <<"x">>, <<SP, ARROW>>) \o <<";", NL>>,
     <<RBRACE, CONST1, NL>>, <<CONST1, NL, IF1, "x", RBRACE, NL>>, <<NL>>}

\* An access-check function: header, handle, guards, end of the function.
AdminTexts ==
    {h \o c \o g \o <<NL, RBRACE, NL>> :
        h \in Headers, c \in Handles, g \in Guards \cup SeqsOf(CoreGuards, MaxGuards)}

\* items.forEach((x) => x.run());
ExampleCallback ==
    <<"items", ".forEach(", LPAR, "x", RPAR, SP, ARROW, SP, "x", ".run(", RPAR, RPAR, ";">>

ExampleAdmin ==
    <<FN, "req", RPAR, SIG, NL, CONST1, NL, IF1, NL, RET, ERR, SQ, "Forbidden", SQ,
      SP, MID, "403", SP, END, ";", NL, RBRACE, NL, "x", NL, RBRACE, NL>>

Texts == CallbackTexts \cup AdminTexts \cup {ExampleCallback, ExampleAdmin}

----------------------------------------------------------------------------
(* State *)

VARIABLES
    text,           \* the argument of the function under check
    fn,             \* the function that was applied to it
    out,            \* its result
    out2,           \* the result of applying the pipeline to out
    pc,             \* main's position
    linesep,        \* os.linesep of the platform
    disk0,          \* the tree at the start: path -> bytes
    disk,           \* the tree: path -> bytes
    ts_files,       \* main's ts_files
    idx,            \* the position of main's loop in ts_files
    changed_count,  \* main's changed_count
    stdout,         \* the lines printed
    log             \* one record per call of process_file

fvars == <<text, fn, out, out2>>
dvars == <<pc, linesep, disk0, disk, ts_files, idx, changed_count, stdout, log>>
vars  == <<text, fn, out, out2, pc, linesep, disk0, disk, ts_files, idx,
           changed_count, stdout, log>>

DriverIdle ==
    /\ pc = "idle"
    /\ linesep = <<NL>>
    /\ disk0 = << >>
    /\ disk = << >>
    /\ ts_files = << >>
    /\ idx = 1
    /\ changed_count = 0
    /\ stdout = << >>
    /\ log = << >>

----------------------------------------------------------------------------
(* The rewrite functions applied to one text. *)

FnInit ==
    /\ text \in Texts
    /\ fn = "none"
    /\ out = << >>
    /\ out2 = << >>
    /\ DriverIdle

RunCheckAdminAccess ==
    /\ fn = "none"
    /\ fn' = "fix_check_admin_access"
    /\ out' = fix_check_admin_access(text)
    /\ UNCHANGED <<text, out2, dvars>>

RunImplicitAnyParams ==
    /\ fn = "none"
    /\ fn' = "fix_implicit_any_params"
    /\ out' = fix_implicit_any_params(text)
    /\ UNCHANGED <<text, out2, dvars>>

RunPipeline ==
    /\ fn = "none"
    /\ fn' = "pipeline"
    /\ out' = Pipeline(text)
    /\ UNCHANGED <<text, out2, dvars>>

RunPipelineAgain ==
    /\ fn = "pipeline"
    /\ fn' = "pipeline_twice"
    /\ out2' = Pipeline(out)
    /\ UNCHANGED <<text, out, dvars>>

FnNext == RunCheckAdminAccess \/ RunImplicitAnyParams \/ RunPipeline \/ RunPipelineAgain

FnSpec == FnInit /\ [][FnNext]_vars

----------------------------------------------------------------------------
(* Paths.  A path is a sequence of segments and a segment a sequence of    *)
(* characters; str(path) is the characters of '/' and each segment.        *)

SRC          == <<"s", "r", "c">>
NODE_MODULES == <<"n", "o", "d", "e", "_", "m", "o", "d", "u", "l", "e", "s">>
REPO         == <<"r", "e", "p", "o">>
LIB          == <<"l", "i", "b">>
SRCGEN       == <<"s", "r", "c", "g", "e", "n">>
A_TS         == <<"a", ".", "t", "s">>
B_TSX        == <<"b", ".", "t", "s", "x">>
C_JS         == <<"c", ".", "j", "s">>
EXT_TS       == <<".", "t", "s">>
EXT_TSX      == <<".", "t", "s", "x">>

\* Path(__file__).parent
base_dir == <<REPO>>

\* The files a tree may hold.
CandidatePaths ==
    {base_dir \o rel : rel \in
        {<<SRC, A_TS>>, <<SRC, B_TSX>>, <<SRC, C_JS>>, <<LIB, A_TS>>,
         <<SRCGEN, A_TS>>, <<NODE_MODULES, SRC, A_TS>>, <<SRC, NODE_MODULES, B_TSX>>}}

RECURSIVE Str(_)
Str(path) ==
    IF path = << >> THEN << >> ELSE <<"/">> \o Head(path) \o Str(Tail(path))

\* needle in hay, of two character sequences.
Contains(hay, needle) ==
    \E k \in 0..(Len(hay) - Len(needle)) :
        SubSeq(hay, k + 1, k + Len(needle)) = needle

EndsWith(name, ext) ==
    /\ Len(name) >= Len(ext)
    /\ SubSeq(name, Len(name) - Len(ext) + 1, Len(name)) = ext

\* base_dir.rglob('*' + ext) on the tree: the paths whose name ends in ext.
rglob(tree, ext) == {f \in DOMAIN tree : EndsWith(f[Len(f)], ext)}

\* The filter without its second condition.
KeepPathSrcOnly(f) == Contains(Str(f), SRC)

\* The condition of the filter of line 113.
KeepPath(f) == Contains(Str(f), SRC) /\ ~Contains(Str(f), NODE_MODULES)

\* The orders in which a set may be listed.
RECURSIVE Orders(_)
Orders(S) ==
    IF S = {} THEN {<< >>}
    ELSE UNION {{<<x>> \o o : o \in Orders(S \ {x})} : x \in S}

RECURSIVE Filter(_)
Filter(fs) ==
    IF fs = << >> THEN << >>
    ELSE (IF KeepPath(Head(fs)) THEN <<Head(fs)>> ELSE << >>) \o Filter(Tail(fs))

----------------------------------------------------------------------------
(* Files.  A file on disk is a sequence of bytes, written as the tokens of *)
(* its text, "\r" and "\n" for the line endings, and BAD for a byte that   *)
(* is no UTF-8.                                                            *)

BAD == "<0xFF>"

MaxFiles == 2

FileContents ==
    {<<"items", ".map(", LPAR, "x", RPAR, SP, ARROW, SP, "x", RPAR, ";", CR, NL>>,
     <<"items", ".map(", LPAR, "x", RPAR, SP, ARROW, SP, "x", RPAR, ";", NL>>,
     <<"x", ";", CR, NL>>,
     <<"items", ".map(", LPAR, "x", ANY, RPAR, SP, ARROW, SP, "x", RPAR, ";", NL>>,
     <<"items", ".map(", LPAR, "x", RPAR, SP, ARROW, BAD, NL>>,
     <<FN, "req", RPAR, SIG, CONST1, IF1, RET, ERR, SQ, "Forbidden", SQ, SP, MID,
       "403", SP, END, ";", RBRACE, RBRACE, NL>>}

\* The trees of at most MaxFiles files.
Trees ==
    UNION {[S -> FileContents] :
             S \in {T \in SUBSET CandidatePaths : Cardinality(T) \in 1..MaxFiles}}

\* f.read() of a file opened with open(path, 'r', encoding='utf-8'): the
\* text of the bytes, each "\r\n" and each other "\r" read as "\n".
RECURSIVE Decode(_)
Decode(bytes) ==
    IF bytes = << >> THEN << >>
    ELSE IF Head(bytes) = CR
         THEN IF Len(bytes) >= 2 /\ bytes[2] = NL
              THEN <<NL>> \o Decode(Tail(Tail(bytes)))
              ELSE <<NL>> \o Decode(Tail(bytes))
         ELSE <<Head(bytes)>> \o Decode(Tail(bytes))

\* The bytes do not decode as UTF-8.
Undecodable(bytes) == \E k \in 1..Len(bytes) : bytes[k] = BAD

\* f.write(content) on a file opened with open(path, 'w', encoding='utf-8'):
\* each "\n" written as os.linesep.
RECURSIVE Encode(_, _)
Encode(content, sep) ==
    IF content = << >> THEN << >>
    ELSE (IF Head(content) = NL THEN sep ELSE <<Head(content)>>)
         \o Encode(Tail(content), sep)

\* Lines 94-95 on the texts of the files of the trees.
PipelineOfFile == [c \in {Decode(b) : b \in FileContents} |-> Pipeline(c)]

\* What may go wrong in one call of process_file, besides the bytes not
\* decoding: open(path, 'r') fails; open(path, 'w') fails; the write fails
\* after open(path, 'w') has truncated the file.
Faults == {"none", "open_read", "open_write", "write"}

\* Writing whatever the comparison says.
ShouldWriteAlways(content, original_content) == TRUE

\* The condition of line 98.
ShouldWrite(content, original_content) == content # original_content

\* A handler written except OSError.
CatchesOSErrorOnly(exc) == exc = "OSError"

\* The exceptions the handler of line 103 catches.
Catches(exc) == exc \in {"OSError", "UnicodeDecodeError"}

Result(rd, cont, r, opened, wr, e, bytes) ==
    [read_ok |-> rd, content |-> cont, ret |-> r, open_w |-> opened,
     wrote |-> wr, exc |-> e, disk |-> bytes]

\* process_file on a file holding bytes, with fault of Faults and, for a
\* failing write, n bytes of the new text reaching the disk: what was read,
\* what it returns, whether open(path, 'w') was called, whether the write
\* completed, the exception raised inside the try, the bytes left on disk.
process_file(bytes, sep, fault, n) ==
    IF fault = "open_read"
    THEN Result(FALSE, << >>, FALSE, FALSE, FALSE, "OSError", bytes)
    ELSE IF Undecodable(bytes)
    THEN Result(FALSE, << >>, FALSE, FALSE, FALSE, "UnicodeDecodeError", bytes)
    ELSE LET original_content == Decode(bytes)
             content == PipelineOfFile[original_content]
         IN  IF ~ShouldWrite(content, original_content)
             THEN Result(TRUE, original_content, FALSE, FALSE, FALSE, "none", bytes)
             ELSE IF fault = "open_write"
             THEN Result(TRUE, original_content, FALSE, TRUE, FALSE, "OSError", bytes)
             ELSE IF fault = "write"
             THEN Result(TRUE, original_content, FALSE, TRUE, FALSE, "OSError",
                         SubSeq(Encode(content, sep), 1, n))
             ELSE Result(TRUE, original_content, TRUE, TRUE, TRUE, "none",
                         Encode(content, sep))

\* The faults that can happen to a file holding bytes, each with the
\* numbers of bytes a failing write may leave.
FaultCases(bytes, sep) ==
    LET changes == ~Undecodable(bytes) /\ PipelineOfFile[Decode(bytes)] # Decode(bytes)
        full    == Len(Encode(PipelineOfFile[Decode(bytes)], sep))
    IN  {<<"none", 0>>, <<"open_read", 0>>}
        \cup (IF changes
              THEN {<<"open_write", 0>>}
                   \cup {<<"write", n>> : n \in {0, full \div 2, full - 1}}
              ELSE {})

\* The values of os.linesep: "\n" and "\r\n".
LineSeps == {<<NL>>, <<CR, NL>>}

\* The calls of process_file line 117 can make on a file of the trees: for
\* each fault that can happen to it, the fault and what the call does.
Outcomes ==
    [bytes \in FileContents, sep \in LineSeps |->
       {[fault |-> fc[1], r |-> process_file(bytes, sep, fc[1], fc[2])] :
          fc \in FaultCases(bytes, sep)}]

----------------------------------------------------------------------------
(* The driver *)

Init ==
    /\ text = << >>
    /\ fn = "main"
    /\ out = << >>
    /\ out2 = << >>
    /\ pc = "start"
    /\ linesep \in LineSeps
    /\ disk0 \in Trees
    /\ disk = disk0
    /\ ts_files = << >>
    /\ idx = 1
    /\ changed_count = 0
    /\ stdout = << >>
    /\ log = << >>

\* Lines 109-115 of main.
Discover ==
    /\ pc = "start"
    /\ \E ts \in Orders(rglob(disk, EXT_TS)), tsx \in Orders(rglob(disk, EXT_TSX)) :
           ts_files' = Filter(ts \o tsx)
    /\ changed_count' = 0
    /\ idx' = 1
    /\ pc' = "loop"
    /\ UNCHANGED <<fvars, linesep, disk0, disk, stdout, log>>

\* One turn of the loop of lines 116-119, with its call of process_file.
ProcessNext ==
    /\ pc = "loop"
    /\ idx <= Len(ts_files)
    /\ LET file_path == ts_files[idx] IN
       \E o \in Outcomes[disk[file_path], linesep] :
         \E r \in {o.r} :
           /\ disk' = [disk EXCEPT ![file_path] = r.disk]
           /\ log' = Append(log, [path |-> file_path, fault |-> o.fault, read_ok |-> r.read_ok,
                                  content |-> r.content, ret |-> r.ret, open_w |-> r.open_w,
                                  wrote |-> r.wrote, exc |-> r.exc])
           /\ IF r.exc # "none" /\ ~Catches(r.exc)
              THEN /\ pc' = "aborted"
                   /\ UNCHANGED <<idx, changed_count, stdout>>
              ELSE /\ pc' = "loop"
                   /\ idx' = idx + 1
                   /\ changed_count' = IF r.ret THEN changed_count + 1 ELSE changed_count
                   /\ stdout' = stdout
                        \o (IF r.exc # "none" THEN <<<<"Error processing", file_path>>>> ELSE << >>)
                        \o (IF r.ret THEN <<<<"Fixed:", file_path>>>> ELSE << >>)
    /\ UNCHANGED <<fvars, linesep, disk0, ts_files>>

\* Line 121 of main.
Summary ==
    /\ pc = "loop"
    /\ idx > Len(ts_files)
    /\ stdout' = Append(stdout, <<"Processed", Len(ts_files), "modified", changed_count>>)
    /\ pc' = "done"
    /\ UNCHANGED <<fvars, linesep, disk0, disk, ts_files, idx, changed_count, log>>

Next == Discover \/ ProcessNext \/ Summary

Spec == Init /\ [][Next]_vars

\* main runs to its end: a sequential program takes its next step.
FairSpec == Spec /\ WF_vars(Next)

----------------------------------------------------------------------------
(* What the claims say of the rewrite functions, stated on the text alone. *)

At(t, k) == IF k \in 1..Len(t) THEN t[k] ELSE ""

\* The six operations the claim names.
ClaimedOps == {".forEach(", ".map(", ".filter(", ".find(", ".some(", ".every("}

\* t holds at i a call of one of the six with a callback written exactly
\* <op>((<word>) => : no space inside, one space before the arrow.
ExactCallbackAt(t, i) ==
    LET n == Run(t, i + 2, Word) IN
    /\ At(t, i) \in ClaimedOps
    /\ At(t, i + 1) = LPAR
    /\ n >= 1
    /\ At(t, i + 2 + n) = RPAR
    /\ At(t, i + 3 + n) = SP
    /\ At(t, i + 4 + n) = ARROW

\* t holds at i a call of one of the six with a parenthesised arrow callback
\* of one identifier, whatever the spacing around the arrow.
ArrowCallbackAt(t, i) ==
    LET n == Run(t, i + 2, Word)
        s == Run(t, i + 3 + n, {SP})
    IN  /\ At(t, i) \in ClaimedOps
        /\ At(t, i + 1) = LPAR
        /\ n >= 1
        /\ At(t, i + 2 + n) = RPAR
        /\ At(t, i + 3 + n + s) = ARROW

\* The positions of the parameters (their last token) of the exact callbacks.
ExactParams(t) ==
    {i + 1 + Run(t, i + 2, Word) : i \in {k \in 1..Len(t) : ExactCallbackAt(t, k)}}

\* t with ': any' put after each position of P.
RECURSIVE AnnotatedAfter(_, _, _)
AnnotatedAfter(t, P, p) ==
    IF p > Len(t) THEN << >>
    ELSE <<t[p]>> \o (IF p \in P THEN <<ANY>> ELSE << >>) \o AnnotatedAfter(t, P, p + 1)

\* t holds at j the statement return NextResponse.json({ error: <q><msg><q> },
\* { status: <n> }) whose message holds no quote character.
PlainStmtAt(t, j) ==
    LET n == Run(t, j + 3, NotQuote)
        d == Run(t, j + 6 + n, Digits)
    IN  /\ At(t, j) = RET
        /\ At(t, j + 1) = ERR
        /\ At(t, j + 2) \in Quote
        /\ n >= 1
        /\ At(t, j + 3 + n) = At(t, j + 2)
        /\ At(t, j + 4 + n) = SP
        /\ At(t, j + 5 + n) = MID
        /\ d >= 1
        /\ At(t, j + 6 + n + d) = SP
        /\ At(t, j + 7 + n + d) = END

PlainStmtEnd(t, j) ==
    LET n == Run(t, j + 3, NotQuote) IN j + 8 + n + Run(t, j + 6 + n, Digits)

\* The same statement with any string literal as its message: the literal
\* ends at the first quote like its opening one, and may hold the other quote.
QuotedStmtAt(t, j) ==
    LET q == At(t, j + 2)
        n == Run(t, j + 3, Token \ {q})
        d == Run(t, j + 6 + n, Digits)
    IN  /\ At(t, j) = RET
        /\ At(t, j + 1) = ERR
        /\ q \in Quote
        /\ n >= 1
        /\ At(t, j + 3 + n) = q
        /\ At(t, j + 4 + n) = SP
        /\ At(t, j + 5 + n) = MID
        /\ d >= 1
        /\ At(t, j + 6 + n + d) = SP
        /\ At(t, j + 7 + n + d) = END

QuotedStmtEnd(t, j) ==
    LET n == Run(t, j + 3, Token \ {At(t, j + 2)}) IN j + 8 + n + Run(t, j + 6 + n, Digits)

AllIn(t, from, to, S) == \A k \in from..to : t[k] \in S

\* The statement of t from j to e - 1 is the return of a guard
\* if (!<handle>) { ... } on the absent database handle, in the body of an
\* async function checkAdminAccess(<params>): Promise<boolean> that obtains
\* the handle, with no closing brace between the function's opening brace
\* and the statement, and the guard's closing brace after it.
GuardedIn(t, j, e) ==
    /\ LET e2 == IF At(t, e) = ";" THEN e + 1 ELSE e
       IN  At(t, e2 + Run(t, e2, Space)) = RBRACE
    /\ \E i \in 1..j :
        /\ t[i] = FN
        /\ \E a \in (i + 2)..j :
            /\ t[a] = RPAR
            /\ At(t, a + 1) = SIG
            /\ AllIn(t, i + 1, a - 1, NotRParen)
            /\ \E c \in (a + 2)..j :
                /\ t[c] \in {CONST1, CONST2}
                /\ AllIn(t, a + 2, c - 1, NotRBrace)
                /\ \E f \in (c + 1)..j :
                    /\ t[f] \in {IF1, IF2}
                    /\ AllIn(t, c + 1, f - 1, NotRBrace)
                    /\ \E g \in (f + 1)..j :
                        /\ t[g] = RET
                        /\ AllIn(t, f + 1, g - 1, Space)
                        /\ AllIn(t, g, j - 1, NotRBrace)

GuardedPlainAt(t, j) == PlainStmtAt(t, j) /\ GuardedIn(t, j, PlainStmtEnd(t, j))

GuardedQuotedAt(t, j) == QuotedStmtAt(t, j) /\ GuardedIn(t, j, QuotedStmtEnd(t, j))

\* t from p on, with each guarded plain statement replaced by
\* throw new Error(<q><msg><q>).
RECURSIVE ThrowsFrom(_, _)
ThrowsFrom(t, p) ==
    IF p > Len(t) THEN << >>
    ELSE IF GuardedPlainAt(t, p)
         THEN <<THROW>> \o SubSeq(t, p + 2, p + 3 + Run(t, p + 3, NotQuote))
              \o <<RPAR>> \o ThrowsFrom(t, PlainStmtEnd(t, p))
         ELSE <<t[p]>> \o ThrowsFrom(t, p + 1)

\* C2: the pipeline is idempotent: applied to its own result it returns it
\* unchanged, so that the condition of line 98 is false on a second run.
C2_Idempotent == fn = "pipeline_twice" => out2 = out /\ ~ShouldWrite(out2, out)

C2_Witness ==
    /\ fn = "pipeline_twice"
    /\ fix_check_admin_access(text) # text
    /\ out # fix_check_admin_access(text)
    /\ out2 = out

C9_Annotate ==
    fn = "fix_implicit_any_params" => out = AnnotatedAfter(text, ExactParams(text), 1)

C9_Witness ==
    /\ fn = "fix_implicit_any_params"
    /\ text = ExampleCallback
    /\ out = <<"items", ".forEach(", LPAR, "x", ANY, RPAR, SP, ARROW, SP, "x", ".run(",
               RPAR, RPAR, ";">>

\* C9 (as claimed): no parenthesised arrow callback of one identifier passed
\* to one of the six operations is left without its annotation.
C9_Original ==
    fn = "fix_implicit_any_params" => \A i \in 1..Len(out) : ~ArrowCallbackAt(out, i)

----------------------------------------------------------------------------
(* What the claims say of the driver. *)

Calls == 1..Len(log)

\* The pipeline changes the text the call read.
Differs(r) == r.read_ok /\ PipelineOfFile[r.content] # r.content

HasSegment(path, seg) == \E i \in 1..Len(path) : path[i] = seg

\* The bytes of a file with the guarded statements and the exact callbacks
\* rewritten and every other byte as it was.
RewrittenBytes(bytes) ==
    LET a == ThrowsFrom(bytes, 1) IN AnnotatedAfter(a, ExactParams(a), 1)

\* C1 (as amended): process_file returns True exactly when it completed the
\* write of the pipeline's text; it completes it if and only if the text
\* differs from the text read and neither open(path, 'w') nor the write
\* fails; a file whose text the pipeline leaves as it is is never opened
\* for writing and stays as it was.
C1_WriteIffChanged ==
    \A k \in Calls :
        LET r == log[k] IN
        /\ r.ret <=> r.wrote
        /\ r.wrote <=> (Differs(r) /\ r.exc = "none")
        /\ r.wrote =>
             disk[r.path] = Encode(PipelineOfFile[Decode(disk0[r.path])], linesep)
        /\ r.open_w => Differs(r)
        /\ ~Differs(r) => disk[r.path] = disk0[r.path]

C1_Witness ==
    /\ pc = "done"
    /\ \E j \in Calls, k \in Calls :
        /\ log[j].wrote /\ disk[log[j].path] # disk0[log[j].path]
        /\ log[k].read_ok /\ ~log[k].open_w

\* C1 (as claimed): a file that was read is written if and only if the
\* pipeline's text differs from the text read.
C1_Original == \A k \in Calls : log[k].read_ok => (log[k].wrote <=> Differs(log[k]))

\* C3: a call of process_file that fails leaves the file's bytes as they
\* were before the call and returns False.
C3_Original ==
    \A k \in Calls :
        log[k].exc # "none" => disk[log[k].path] = disk0[log[k].path] /\ ~log[k].ret

\* C4: whatever fails in a call of process_file, main goes on to the files
\* after it, prints its summary and ends.
C4_Completes ==
    <>(/\ pc = "done"
       /\ Len(log) = Len(ts_files)
       /\ \A k \in Calls : log[k].path = ts_files[k]
       /\ stdout[Len(stdout)] = <<"Processed", Len(ts_files), "modified", changed_count>>)

C4_Witness ==
    /\ pc = "done"
    /\ \E k \in Calls : k < Len(log) /\ log[k].exc = "UnicodeDecodeError" /\ log[k + 1].ret

\* C5: no path holding 'node_modules' is in ts_files or is handed to
\* process_file, and the files under a node_modules directory stay as they
\* were.
C5_NoNodeModules ==
    /\ \A k \in 1..Len(ts_files) : ~Contains(Str(ts_files[k]), NODE_MODULES)
    /\ \A k \in Calls : ~Contains(Str(log[k].path), NODE_MODULES)
    /\ \A f \in DOMAIN disk : HasSegment(f, NODE_MODULES) => disk[f] = disk0[f]

C5_Witness ==
    /\ pc = "done"
    /\ \E k \in Calls : log[k].wrote
    /\ \E f \in DOMAIN disk :
        /\ HasSegment(f, NODE_MODULES)
        /\ HasSegment(f, SRC)
        /\ ~Undecodable(disk0[f])
        /\ PipelineOfFile[Decode(disk0[f])] # Decode(disk0[f])

\* C6: every file of ts_files has a path component equal to 'src'.
C6_Original == \A k \in 1..Len(ts_files) : HasSegment(ts_files[k], SRC)

\* C7: a file process_file rewrote holds the bytes it held, each one of
\* them, except for the rewritten statements.
C7_Original ==
    \A k \in Calls : log[k].ret => disk[log[k].path] = RewrittenBytes(disk0[log[k].path])

\* C10: in the loop and at the summary, changed_count is the number of the
\* files processed so far whose bytes on disk this run changed, a 'Fixed:'
\* line was printed for each of them and for no other, and each file was
\* processed once.
C10_Original ==
    pc \in {"loop", "done"} =>
        LET altered == {k \in Calls : disk[log[k].path] # disk0[log[k].path]} IN
        /\ changed_count = Cardinality(altered)
        /\ changed_count <= Len(log)
        /\ \A k \in Calls :
             k \in altered <=> \E n \in 1..Len(stdout) : stdout[n] = <<"Fixed:", log[k].path>>
        /\ \A j \in Calls, k \in Calls : log[j].path = log[k].path => j = k

=============================================================================
